---- MODULE Spec2Model ----
(***************************************************************************)
(* A model of count_article_nouns.py: the noun-frequency count             *)
(* (most_frequent_nouns), the article classifier (process_sentence) and    *)
(* the aggregation with its hapax merge (main).                            *)
(*                                                                         *)
(* Python strings are modelled as sequences of one-character strings, so   *)
(* that str.lower, str.isalpha, str.strip, str.split and str.startswith    *)
(* are computed character by character.  A Counter / dict that the code    *)
(* iterates over is a sequence of <<key, count>> pairs in insertion order. *)
(***************************************************************************)
EXTENDS Integers, Sequences, FiniteSets, TLC

VARIABLES
    pc,             \* position of the running function
    corpus,         \* most_frequent_nouns: the lines of the tagged file not yet read
    top_n,          \* most_frequent_nouns: <<>> for None, <<k>> for the integer k
    frequencies,    \* most_frequent_nouns: the Counter, <<token, count>> in insertion order
    nouns,          \* main: the Counter most_frequent_nouns returned
    nouns_articles, \* main: noun -> Counter of articles, then the DataFrame
    err,            \* the exception raised, "none" if none
    target_nouns,   \* process_sentence: the set of target nouns
    n_chunks,       \* process_sentence: noun chunks of the sentence iterated so far
    n_qualifying,   \* process_sentence: of these, the chunks whose noun is a target noun
    n_emitted,      \* process_sentence: pairs yielded so far
    last_chunk,     \* process_sentence: the noun chunk of the last iteration
    last_yield      \* process_sentence: what that iteration yielded (<<>> or <<pair>>)

vars == <<pc, corpus, top_n, frequencies, nouns, nouns_articles, err,
          target_nouns, n_chunks, n_qualifying, n_emitted, last_chunk, last_yield>>

freqVars == <<corpus, top_n, frequencies>>
mainVars == <<nouns, nouns_articles>>
sentVars == <<target_nouns, n_chunks, n_qualifying, n_emitted, last_chunk, last_yield>>

---------------------------------------------------------------------------
(* Bounds *)

MaxLines == 4       \* lines of the tagged corpus
MaxTopN == 3        \* largest integer top_n tried
MaxChildren == 2    \* syntactic children of a noun chunk's root
MaxChunks == 3      \* noun chunks of one sentence
MaxObs == 4         \* (noun, article) pairs counted by main

---------------------------------------------------------------------------
(* Python str methods *)

UpperCase == <<"A","B","C","D","E","F","G","H","I","J","K","L","M",
               "N","O","P","Q","R","S","T","U","V","W","X","Y","Z">>
LowerCase == <<"a","b","c","d","e","f","g","h","i","j","k","l","m",
               "n","o","p","q","r","s","t","u","v","w","x","y","z">>
Whitespace == {" ", "\t", "\n"}

Range(s) == {s[i] : i \in 1..Len(s)}

Letters == Range(UpperCase) \cup Range(LowerCase)

Lowered ==
    [c \in Range(UpperCase) |->
        LowerCase[CHOOSE i \in 1..Len(UpperCase) : UpperCase[i] = c]]

LowerChar(c) == IF c \in DOMAIN Lowered THEN Lowered[c] ELSE c

lower(s) == [i \in 1..Len(s) |-> LowerChar(s[i])]

isalpha(s) ==
    /\ Len(s) > 0
    /\ \A i \in 1..Len(s) : s[i] \in Letters

RECURSIVE lstrip(_)
lstrip(s) ==
    IF s = <<>> \/ Head(s) \notin Whitespace THEN s ELSE lstrip(Tail(s))

RECURSIVE rstrip(_)
rstrip(s) ==
    IF s = <<>> \/ s[Len(s)] \notin Whitespace THEN s
    ELSE rstrip(SubSeq(s, 1, Len(s) - 1))

strip(s) == rstrip(lstrip(s))

RECURSIVE split(_, _)
split(s, sep) ==
    IF sep \notin Range(s) THEN <<s>>
    ELSE LET i == CHOOSE j \in 1..Len(s) :
                      s[j] = sep /\ \A k \in 1..(j - 1) : s[k] # sep
         IN  <<SubSeq(s, 1, i - 1)>> \o split(SubSeq(s, i + 1, Len(s)), sep)

startswith(s, prefix) ==
    Len(s) >= Len(prefix) /\ SubSeq(s, 1, Len(prefix)) = prefix

---------------------------------------------------------------------------
(* collections.Counter, as <<key, count>> pairs in insertion order *)

Keys(counter) == {counter[i][1] : i \in 1..Len(counter)}

Increment(counter, key) ==
    IF key \in Keys(counter)
    THEN [i \in 1..Len(counter) |->
             IF counter[i][1] = key THEN <<key, counter[i][2] + 1>> ELSE counter[i]]
    ELSE Append(counter, <<key, 1>>)

RemoveAt(s, i) == SubSeq(s, 1, i - 1) \o SubSeq(s, i + 1, Len(s))

\* The first item with the largest count: sorting by count, descending, is
\* stable, so that ties stay in insertion order.
FirstLargest(counter) ==
    CHOOSE i \in 1..Len(counter) :
        /\ \A j \in 1..Len(counter) : counter[j][2] <= counter[i][2]
        /\ \A j \in 1..(i - 1) : counter[j][2] < counter[i][2]

RECURSIVE most_common(_, _)
most_common(counter, n) ==
    IF n <= 0 \/ counter = <<>> THEN <<>>
    ELSE LET i == FirstLargest(counter)
         IN  <<counter[i]>> \o most_common(RemoveAt(counter, i), n - 1)

---------------------------------------------------------------------------
(* most_frequent_nouns *)

nn == <<"n","n">>
Tab == "\t"

dog == <<"d","o","g">>
cat == <<"c","a","t">>

\* Lines of a tagged corpus file: noun lines in several cases and noun
\* subtypes, a noun with a digit, a non-noun, and lines with one and three fields.
TaggedLines ==
    { <<"d","o","g","\t","N","N","\n">>,
      <<"D","o","g","\t","n","n","1","\n">>,
      <<"c","a","t","\t","N","N","2","\n">>,
      <<"d","0","g","\t","N","N","\n">>,
      <<"t","h","e","\t","D","T","\n">>,
      <<"d","o","g","\n">>,
      <<"a","\t","b","\t","N","N","\n">> }

SeqsUpTo(S, n) == UNION {[1..k -> S] : k \in 0..n}

Corpora == SeqsUpTo(TaggedLines, MaxLines)

\* One iteration of the loop over the corpus: a line that does not split into
\* exactly two fields raises ValueError at the unpacking and is skipped.
count_line(counter, line) ==
    LET fields == split(lower(strip(line)), Tab)
    IN  IF Len(fields) # 2 THEN counter
        ELSE IF startswith(fields[2], nn) THEN Increment(counter, fields[1])
        ELSE counter

\* del frequencies[noun] for every noun that is not alphabetic
remove_non_alpha(counter) ==
    SelectSeq(counter, LAMBDA item : isalpha(item[1]))

\* "if top_n:" is the truth value of top_n: None and 0 are both false
Truthy(n) == n # <<>> /\ n[1] # 0

TopNChoices == {<<>>} \cup {<<k>> : k \in 0..MaxTopN}

\* the literal argument of main's call
TOP_N == 1000

ReadLine ==
    /\ pc = "count"
    /\ corpus # <<>>
    /\ frequencies' = count_line(frequencies, Head(corpus))
    /\ corpus' = Tail(corpus)
    /\ UNCHANGED <<pc, top_n, mainVars, err, sentVars>>

RemoveNonAlpha ==
    /\ pc = "count"
    /\ corpus = <<>>
    /\ frequencies' = remove_non_alpha(frequencies)
    /\ pc' = "select"
    /\ UNCHANGED <<corpus, top_n, mainVars, err, sentVars>>

select_top_n(counter, n) ==
    IF Truthy(n) THEN most_common(counter, n[1]) ELSE counter

SelectTopN ==
    /\ pc = "select"
    /\ nouns' = select_top_n(frequencies, top_n)
    /\ pc' = "returned"
    /\ UNCHANGED <<freqVars, nouns_articles, err, sentVars>>

NoChunk == [root |-> <<>>, children |-> <<>>]

InitFreq ==
    /\ pc = "count"
    /\ corpus \in Corpora
    /\ top_n \in TopNChoices
    /\ frequencies = <<>>
    /\ nouns = <<>>
    /\ nouns_articles = <<>>
    /\ err = "none"
    /\ target_nouns = {}
    /\ n_chunks = 0
    /\ n_qualifying = 0
    /\ n_emitted = 0
    /\ last_chunk = NoChunk
    /\ last_yield = <<>>

NextFreq == ReadLine \/ RemoveNonAlpha \/ SelectTopN

SpecFreq == InitFreq /\ [][NextFreq]_vars

---------------------------------------------------------------------------
(* process_sentence *)

Token(text, dep) == [text |-> text, dep |-> dep]
Chunk(root, children) == [root |-> root, children |-> children]

possessives ==
    { <<"m","y">>, <<"y","o","u","r">>, <<"h","i","s">>, <<"h","e","r">>,
      <<"i","t","s">>, <<"t","h","e","i","r">>, <<"o","u","r">> }

other_possessive ==
    <<"o","t","h","e","r","_","p","o","s","s","e","s","s","i","v","e">>
no_article == <<"n","o","_","a","r","t","i","c","l","e">>

\* Mutant: the scan without the isalpha test on the child's text.
RECURSIVE scan_children_no_skip(_, _)
scan_children_no_skip(noun, children) ==
    IF children = <<>> THEN <<noun, no_article>>
    ELSE LET child == Head(children)
         IN  IF child.dep = "det" THEN <<noun, lower(child.text)>>
             ELSE IF child.dep = "poss"
                  THEN LET article == lower(child.text)
                       IN  IF article \notin possessives
                           THEN <<noun, other_possessive>>
                           ELSE <<noun, article>>
             ELSE scan_children_no_skip(noun, Tail(children))

\* Mutant: a determiner wins over a possessive wherever it stands.
scan_children_det_first(noun, children) ==
    LET alpha == SelectSeq(children, LAMBDA c : isalpha(c.text))
        dets == SelectSeq(alpha, LAMBDA c : c.dep = "det")
        poss == SelectSeq(alpha, LAMBDA c : c.dep = "poss")
    IN  IF dets # <<>> THEN <<noun, lower(dets[1].text)>>
        ELSE IF poss # <<>>
             THEN IF lower(poss[1].text) \notin possessives
                  THEN <<noun, other_possessive>>
                  ELSE <<noun, lower(poss[1].text)>>
        ELSE <<noun, no_article>>

\* The loop over noun_chunk.root.children with its break and its else branch:
\* what the chunk of a target noun yields.
RECURSIVE scan_children(_, _)
scan_children(noun, children) ==
    IF children = <<>> THEN <<noun, no_article>>
    ELSE LET child == Head(children)
         IN  IF ~isalpha(child.text) THEN scan_children(noun, Tail(children))
             ELSE IF child.dep = "det" THEN <<noun, lower(child.text)>>
             ELSE IF child.dep = "poss"
                  THEN LET article == lower(child.text)
                       IN  IF article \notin possessives
                           THEN <<noun, other_possessive>>
                           ELSE <<noun, article>>
             ELSE scan_children(noun, Tail(children))

\* Mutant: the loop without the test "noun not in target_nouns".
process_chunk_unfiltered(noun_chunk, targets) ==
    <<scan_children(lower(noun_chunk.root), noun_chunk.children)>>

\* One iteration of the loop over sent.noun_chunks: the pairs it yields.
process_chunk(noun_chunk, targets) ==
    LET noun == lower(noun_chunk.root)
    IN  IF noun \notin targets THEN <<>>
        ELSE <<scan_children(noun, noun_chunk.children)>>

\* What the parser can hand over: tokens with their dependency labels.
The == Token(<<"T","h","e">>, "det")
My == Token(<<"M","y">>, "poss")
Mary == Token(<<"M","a","r","y">>, "poss")
MaryS == Token(<<"M","a","r","y","'","s">>, "poss")
big == Token(<<"b","i","g">>, "amod")

ChildTokens == {The, My, Mary, MaryS, big}
Roots == { <<"D","o","g">>, cat, <<"f","o","x">> }
Chunks ==
    {Chunk(r, ch) : r \in Roots, ch \in SeqsUpTo(ChildTokens, MaxChildren)}

Parse ==
    /\ pc = "parse"
    /\ pc' = "chunks"
    /\ UNCHANGED <<freqVars, mainVars, err, sentVars>>

ParserRaises ==
    /\ pc = "parse"
    /\ pc' = "aborted"
    /\ err' = "ParserError"
    /\ UNCHANGED <<freqVars, mainVars, sentVars>>

NextChunk ==
    /\ pc = "chunks"
    /\ n_chunks < MaxChunks
    /\ \E c \in Chunks :
          LET y == process_chunk(c, target_nouns)
          IN  /\ last_chunk' = c
              /\ last_yield' = y
              /\ n_chunks' = n_chunks + 1
              /\ n_qualifying' =
                    n_qualifying + (IF lower(c.root) \in target_nouns THEN 1 ELSE 0)
              /\ n_emitted' = n_emitted + Len(y)
    /\ UNCHANGED <<pc, freqVars, mainVars, err, target_nouns>>

Exhausted ==
    /\ pc = "chunks"
    /\ pc' = "exhausted"
    /\ UNCHANGED <<freqVars, mainVars, err, sentVars>>

InitSentence ==
    /\ pc = "parse"
    /\ corpus = <<>>
    /\ top_n = <<>>
    /\ frequencies = <<>>
    /\ nouns = <<>>
    /\ nouns_articles = <<>>
    /\ err = "none"
    /\ target_nouns \in SUBSET {dog, cat}
    /\ n_chunks = 0
    /\ n_qualifying = 0
    /\ n_emitted = 0
    /\ last_chunk = NoChunk
    /\ last_yield = <<>>

NextSentence == Parse \/ ParserRaises \/ NextChunk \/ Exhausted

SpecSentence == InitSentence /\ [][NextSentence]_vars

---------------------------------------------------------------------------
(* main *)

RECURSIVE SumOver(_, _)
SumOver(f, S) ==
    IF S = {} THEN 0
    ELSE LET x == CHOOSE y \in S : TRUE
         IN  f[x] + SumOver(f, S \ {x})

\* nouns_articles[noun][article] += 1 on the dict of Counters: a dict maps
\* each noun to the function from the articles seen with it to their counts.
count_pair(dict, pair) ==
    LET noun == pair[1]
        article == pair[2]
        counter == dict[noun]
    IN  [dict EXCEPT ![noun] =
            IF article \in DOMAIN counter
            THEN [counter EXCEPT ![article] = @ + 1]
            ELSE [a \in DOMAIN counter \cup {article} |->
                     IF a = article THEN 1 ELSE counter[a]]]

Observations(dict) ==
    SumOver([n \in DOMAIN dict |-> SumOver(dict[n], DOMAIN dict[n])], DOMAIN dict)

\* pd.DataFrame(nouns_articles).T.fillna(0).astype(int): one row per key of
\* the dict, one column per article of any Counter, 0 where a Counter has
\* no entry.
data_frame(dict) ==
    LET cols == UNION {DOMAIN dict[n] : n \in DOMAIN dict}
    IN  [index |-> DOMAIN dict,
         columns |-> cols,
         cell |-> [n \in DOMAIN dict |->
                      [c \in cols |-> IF c \in DOMAIN dict[n] THEN dict[n][c] ELSE 0]]]

\* nouns_articles.sum(0) and nouns_articles[cols].sum(1)
ColumnSum(df, c) == SumOver([n \in df.index |-> df.cell[n][c]], df.index)
RowSum(df, n, cols) == SumOver(df.cell[n], cols)

\* nouns_articles.columns[nouns_articles.sum(0) == 1]
hapaxes(df) == {c \in df.columns : ColumnSum(df, c) = 1}

\* nouns_articles["no_article"] raises KeyError when there is no such column
merge_raises(df) == no_article \notin df.columns

\* nouns_articles["no_article"] += nouns_articles[hapaxes].sum(1)
add_hapaxes(df, hs) ==
    [df EXCEPT !.cell =
        [n \in df.index |->
            [df.cell[n] EXCEPT ![no_article] = @ + RowSum(df, n, hs)]]]

\* nouns_articles.drop(columns=hapaxes, inplace=True)
drop_columns(df, hs) ==
    [index |-> df.index,
     columns |-> df.columns \ hs,
     cell |-> [n \in df.index |-> [c \in df.columns \ hs |-> df.cell[n][c]]]]

hapax_merge(df) == drop_columns(add_hapaxes(df, hapaxes(df)), hapaxes(df))

\* nouns_articles = {noun: Counter() for noun in nouns}
StartMain ==
    /\ pc = "returned"
    /\ nouns_articles' = [n \in Keys(nouns) |-> <<>>]
    /\ pc' = "sentences"
    /\ UNCHANGED <<freqVars, nouns, err, sentVars>>

\* the next sentence of the corpus is parsed
ParseNext ==
    /\ pc = "sentences"
    /\ pc' = "counting"
    /\ UNCHANGED <<freqVars, mainVars, err, sentVars>>

\* Mutant: the failure is caught and the sentence skipped.
ParseNextSkips ==
    /\ pc = "sentences"
    /\ pc' = "sentences"
    /\ err' = "ParserError"
    /\ UNCHANGED <<freqVars, mainVars, sentVars>>

\* nlp raises on the next sentence: nothing catches it
ParseNextRaises ==
    /\ pc = "sentences"
    /\ pc' = "aborted"
    /\ err' = "ParserError"
    /\ UNCHANGED <<freqVars, mainVars, sentVars>>

\* What process_sentence can yield for one noun chunk: nothing, or one pair.
Yields(targets) == {process_chunk(c, targets) : c \in Chunks}

\* the next noun chunk of the sentence, and the loop body for what it yields
CountChunk ==
    /\ pc = "counting"
    /\ \E y \in Yields(Keys(nouns)) :
          IF y = <<>> THEN UNCHANGED nouns_articles
          ELSE /\ Observations(nouns_articles) < MaxObs
               /\ nouns_articles' = count_pair(nouns_articles, y[1])
    /\ UNCHANGED <<pc, freqVars, nouns, err, sentVars>>

EndSentence ==
    /\ pc = "counting"
    /\ pc' = "sentences"
    /\ UNCHANGED <<freqVars, mainVars, err, sentVars>>

\* the corpus is exhausted: the dict becomes the DataFrame
BuildFrame ==
    /\ pc = "sentences"
    /\ nouns_articles' = data_frame(nouns_articles)
    /\ pc' = "merge"
    /\ UNCHANGED <<freqVars, nouns, err, sentVars>>

HapaxMerge ==
    /\ pc = "merge"
    /\ ~merge_raises(nouns_articles)
    /\ nouns_articles' = hapax_merge(nouns_articles)
    /\ pc' = "save"
    /\ UNCHANGED <<freqVars, nouns, err, sentVars>>

HapaxMergeRaises ==
    /\ pc = "merge"
    /\ merge_raises(nouns_articles)
    /\ pc' = "aborted"
    /\ err' = "KeyError"
    /\ UNCHANGED <<freqVars, mainVars, sentVars>>

\* nouns_articles.to_csv(RESULTS, sep="\t")
Save ==
    /\ pc = "save"
    /\ pc' = "done"
    /\ UNCHANGED <<freqVars, mainVars, err, sentVars>>

Init ==
    /\ pc = "count"
    /\ corpus \in Corpora
    /\ top_n = <<TOP_N>>
    /\ frequencies = <<>>
    /\ nouns = <<>>
    /\ nouns_articles = <<>>
    /\ err = "none"
    /\ target_nouns = {}
    /\ n_chunks = 0
    /\ n_qualifying = 0
    /\ n_emitted = 0
    /\ last_chunk = NoChunk
    /\ last_yield = <<>>

Next ==
    \/ ReadLine
    \/ RemoveNonAlpha
    \/ SelectTopN
    \/ StartMain
    \/ ParseNext
    \/ ParseNextRaises
    \/ CountChunk
    \/ EndSentence
    \/ BuildFrame
    \/ HapaxMerge
    \/ HapaxMergeRaises
    \/ Save

Spec == Init /\ [][Next]_vars

---------------------------------------------------------------------------
(* Properties of process_sentence, checked under SpecSentence *)

Iterated == pc \in {"chunks", "exhausted"} /\ n_chunks > 0
LastNoun == lower(last_chunk.root)
LastQualifies == Iterated /\ LastNoun \in target_nouns
Deps(children) == {children[i].dep : i \in 1..Len(children)}
PossTexts(children) ==
    {children[i].text : i \in {j \in 1..Len(children) : children[j].dep = "poss"}}

\* C1: every noun chunk whose lowercased head is a target noun yields exactly
\* one pair, every other chunk yields none: the pairs yielded so far are as
\* many as the qualifying chunks, and every yielded noun is a target noun.
C1_OnePairPerQualifyingChunk ==
    /\ n_emitted = n_qualifying
    /\ Iterated =>
         /\ Len(last_yield) = (IF LastNoun \in target_nouns THEN 1 ELSE 0)
         /\ \A i \in 1..Len(last_yield) :
               last_yield[i][1] = LastNoun /\ last_yield[i][1] \in target_nouns

\* a sentence with a qualifying chunk that has children and a chunk that
\* does not qualify
C1_Witness ==
    /\ LastQualifies
    /\ last_chunk.children # <<>>
    /\ n_chunks > n_qualifying
    /\ n_emitted >= 1

Deciding(children) ==
    {i \in 1..Len(children) :
        isalpha(children[i].text) /\ children[i].dep \in {"det", "poss"}}

ExpectedLabel(children) ==
    IF Deciding(children) = {} THEN no_article
    ELSE LET i == CHOOSE j \in Deciding(children) :
                      \A k \in Deciding(children) : j <= k
             text == lower(children[i].text)
         IN  IF children[i].dep = "det" THEN text
             ELSE IF text \in possessives THEN text
             ELSE other_possessive

\* C9: the label of a qualifying chunk is decided by the first alphabetic
\* child, in child order, that is a determiner or a possessive: a determiner
\* gives its lowercased text, a possessive its lowercased text if it is one of
\* the seven pronouns and other_possessive otherwise; with no such child the
\* label is no_article.
C9_FirstDecidingChildWins ==
    LastQualifies =>
        last_yield = << <<LastNoun, ExpectedLabel(last_chunk.children)>> >>

\* a possessive before a determiner: the possessive wins
C9_Witness ==
    /\ LastQualifies
    /\ last_chunk.children = <<My, The>>
    /\ last_yield = << <<LastNoun, <<"m","y">> >> >>

---------------------------------------------------------------------------
(* Properties of most_frequent_nouns, checked under SpecFreq *)

Min(a, b) == IF a <= b THEN a ELSE b

\* C6: with an integer top_n = K >= 0, most_frequent_nouns returns exactly
\* min(K, D) entries, D the number of nouns left by the alphabetic filter,
\* in descending order of count and none with a smaller count than an entry
\* left out.
C6_TopNExact ==
    (pc = "returned" /\ top_n # <<>>) =>
        /\ Len(nouns) = Min(top_n[1], Len(frequencies))
        /\ \A i \in 1..Len(nouns) : \A j \in i..Len(nouns) :
              nouns[i][2] >= nouns[j][2]
        /\ \A i \in 1..Len(nouns) : \A j \in 1..Len(frequencies) :
              frequencies[j][1] \notin Keys(nouns) =>
                  frequencies[j][2] <= nouns[i][2]

---------------------------------------------------------------------------
(* Properties of main, checked under Spec *)

Targets == Keys(nouns)

\* C3: the hapax merge leaves every row's total over all columns unchanged.
C3_MergeKeepsRowTotals ==
    [][(pc = "merge" /\ pc' = "save") =>
          \A n \in nouns_articles.index :
              RowSum(nouns_articles', n, nouns_articles'.columns)
                  = RowSum(nouns_articles, n, nouns_articles.columns)]_vars

\* C4: with a non-empty target noun set, the aggregation and the merge
\* complete, and the final table has one row per target noun and a
\* no_article column.
C4_TableForEveryStream ==
    Targets # {} =>
        /\ err # "KeyError"
        /\ pc \in {"save", "done"} =>
              /\ nouns_articles.index = Targets
              /\ no_article \in nouns_articles.columns

\* C5: merging the merged table again completes and changes nothing.
C5_MergeIdempotent ==
    pc = "save" =>
        /\ ~merge_raises(nouns_articles)
        /\ hapax_merge(nouns_articles) = nouns_articles

\* C7: with an empty target noun set, the aggregation and the merge finish
\* without an error and the table has no rows.
C7_EmptyTargetsEmptyTable ==
    Targets = {} =>
        /\ err # "KeyError"
        /\ pc \in {"save", "done"} => nouns_articles.index = {}

\* C8 as stated: a parser failure on one sentence does not abort the run.
C8_RunNotAborted ==
    err = "ParserError" => pc # "aborted"

\* C8 amended: a parser failure is not caught: the run is aborted at that
\* sentence, no later sentence is classified and no table is produced.
C8_ParserFailureAborts ==
    err = "ParserError" => (pc = "aborted" /\ ~ENABLED Next)

\* the parser fails after pairs of earlier sentences were counted
C8_Witness ==
    /\ err = "ParserError"
    /\ pc = "aborted"
    /\ Observations(nouns_articles) > 0

\* C10: when the no_article column has total 1 before the merge, it is still
\* there after it, and its cells change only by the other hapax columns.
C10_NoArticleHapaxKept ==
    [][( /\ pc = "merge" /\ pc' = "save"
         /\ no_article \in hapaxes(nouns_articles) ) =>
          /\ no_article \in nouns_articles'.columns
          /\ \A n \in nouns_articles.index :
                nouns_articles'.cell[n][no_article]
                    = nouns_articles.cell[n][no_article]
                      + RowSum(nouns_articles, n,
                               hapaxes(nouns_articles) \ {no_article})]_vars

====
